---- MODULE Spec2Model ----
(***************************************************************************)
(* A model of the resume generator: the block builders of the four DOCX    *)
(* drivers (create_resume_react_template.py, create_resume_rajnish_        *)
(* template.py, create_resume_twocolumn3.py, create_resume_app_developer.  *)
(* py) and the DOCX-to-PDF converter (convert_to_pdf.py).                  *)
(*                                                                         *)
(* A string is a sequence of one-character strings.  A run is a record of  *)
(* its text, its bold flag, its w:noBreak mark and whether it holds a      *)
(* picture; font name, size and colour are presentation constants and are  *)
(* not modelled.  A paragraph is a record of its runs and its left and     *)
(* right indents in twips (<<>> when the builder never sets the indent).   *)
(* A cell is the sequence of its paragraphs.  The page layout of a driver  *)
(* is modelled apart from the cell contents: the section margins and, for  *)
(* each table, its column widths and the children of each cell's w:tcPr;   *)
(* lengths are in twips (1440 to the inch).                                *)
(*                                                                         *)
(* The specifications, each over the same variables and holding the parts  *)
(* it is not about constant: SpecBullet and SpecIcon (single builders),    *)
(* SpecCompose (all builders, composed), SpecDriver (the layout statements *)
(* of a driver run, up to the save), SpecLayout (the layout helpers called *)
(* with any arguments) and SpecConverter (convert_docx_to_pdf).            *)
(***************************************************************************)
EXTENDS Integers, Sequences, FiniteSets, TLC

VARIABLES
    text,         \* the text argument handed to the builders of this run
    icons,        \* the icon files on disk: key -> "missing" | "unreadable" | "ok"
    cell,         \* the target cell: its paragraphs, in order
    call,         \* the last builder call made (op "none" before the first)
    ret,          \* index in cell of the paragraph the last call returned (0: none)
    out,          \* what has been printed, in order
    log,          \* the builder calls made on the cell, in order, each with
                  \* its text and the paragraphs it appended (first..last)
    pc,           \* convert_docx_to_pdf: where the control is
    docx_exists,  \* os.path.exists(docx_file)
    pdf_exists,   \* os.path.exists(pdf_file)
    native_env,   \* what docx2pdf does in this environment
    ext_env,      \* what launching each path of libreoffice_paths does
    idx,          \* convert_docx_to_pdf: index of the next path of libreoffice_paths
    attempts,     \* convert_docx_to_pdf: the mechanisms attempted, with outcomes
    result,       \* convert_docx_to_pdf: the value returned ("none" while running)
    driver,       \* the driver script that runs ("none": no driver)
    dpc,          \* the driver: "import", "run", "raised", "done", "uncaught"
                  \* ("idle": no driver)
    step,         \* the driver: index in its script of the next statement
    doc,          \* the document tree: section margins and tables
    saved,        \* the file names doc.save has written, in order
    error,        \* the exception the last layout statement raised ("none")
    lcall,        \* the last layout call made, with the margins it found
    lib_rejects   \* the page edges whose margin setter rejects a negative length

vars == <<text, icons, cell, call, ret, out, log, pc, docx_exists, pdf_exists,
          native_env, ext_env, idx, attempts, result,
          driver, dpc, step, doc, saved, error, lcall, lib_rejects>>

builder_vars == <<text, icons, cell, call, ret, out, log>>
converter_vars == <<pc, docx_exists, pdf_exists, native_env, ext_env, idx, attempts, result>>
layout_vars == <<driver, dpc, step, doc, saved, error, lcall, lib_rejects>>

(***************************************************************************)
(* Bounds.                                                                 *)
(***************************************************************************)
\* longest bullet string drawn from BulletChars
MaxBulletLen == 7
\* builder calls made on one cell in the bullet specification
MaxCalls == 2
\* longest icon-row text drawn from TextChars
MaxTextLen == 3

SeqsUpTo(S, n) == UNION {[1..k -> S] : k \in 0..n}

(***************************************************************************)
(* Strings.                                                                *)
(***************************************************************************)
Last(s) == s[Len(s)]

\* `sub in s` for a two-character sub (Python's substring test)
Contains2(s, c1, c2) == \E i \in 1..(Len(s) - 1) : s[i] = c1 /\ s[i + 1] = c2

\* `c in s` for a one-character c
Contains1(s, c) == \E i \in 1..Len(s) : s[i] = c

\* text.split('**'): the delimiters are found left to right and do not
\* overlap; n delimiters give n + 1 parts, empty parts included.
RECURSIVE split_from(_, _, _, _)
split_from(s, i, cur, acc) ==
    IF i > Len(s) THEN Append(acc, cur)
    ELSE IF i < Len(s) /\ s[i] = "*" /\ s[i + 1] = "*"
         THEN split_from(s, i + 2, <<>>, Append(acc, cur))
         ELSE split_from(s, i + 1, Append(cur, s[i]), acc)

split(s) == split_from(s, 1, <<>>, <<>>)

(***************************************************************************)
(* Runs and paragraphs.                                                    *)
(***************************************************************************)
Run(t, b) == [text |-> t, bold |-> b, noBreak |-> FALSE, picture |-> FALSE]

\* Characters outside ASCII are named: "BULLET" is U+2022, "NBSP" is U+00A0
\* and "THINSP" is U+2009.
\* p.add_run(BULLET + ' ') with bold = True: the bullet glyph
bullet_run == Run(<<"BULLET", " ">>, TRUE)

\* a paragraph: its runs, w:ind left and right in twips (<<>> when not set),
\* the borders of its w:pBdr, and its w:pPr children in document order,
\* each as the set of what it holds ("formatting": the spacing, indent and
\* alignment elements; "pBdr": the border element).  Every builder sets
\* p.paragraph_format on the paragraph it adds, which creates the
\* paragraph's w:pPr (get_or_add_pPr) and fills it.
Paragraph(rs, left, right) ==
    [runs |-> rs, left_indent |-> left, right_indent |-> right, borders |-> <<>>,
     pPr |-> <<{"formatting"}>>]

\* the paragraph a new table cell holds before any builder is called
empty_paragraph == [Paragraph(<<>>, <<>>, <<>>) EXCEPT !.pPr = <<>>]

\* for i, part in enumerate(parts): the run each part would give (Python's
\* index i is the sequence index minus one)
part_runs(parts) == [k \in 1..Len(parts) |-> Run(parts[k], (k - 1) % 2 = 1)]

\* a faulty variant: the emphasized parts are dropped with the empty ones
keep_nonempty_plain(r) == r.text # <<>> /\ ~r.bold

\* if part: (an empty part gives no run)
keep_nonempty(r) == r.text # <<>>
keep_nonempty_or_bold(r) == r.bold \/ r.text # <<>>

\* a faulty variant: the parity test inverted (i % 2 == 0 marks bold)
add_bullet_runs_parity_flipped(t) ==
    IF Contains2(t, "*", "*")
    THEN SelectSeq([k \in 1..Len(split(t)) |-> Run(split(t)[k], (k - 1) % 2 = 0)],
                   keep_nonempty)
    ELSE <<Run(t, FALSE)>>

\* add_bullet, the runs after the glyph: every non-empty part gives a run,
\* bold when its index is odd; a text without '**' gives one plain run.
add_bullet_runs(t) ==
    IF Contains2(t, "*", "*")
    THEN SelectSeq(part_runs(split(t)), keep_nonempty)
    ELSE <<Run(t, FALSE)>>

\* a faulty variant: the odd-indexed parts are emitted plain
add_compact_bullet_runs_never_bold(t) ==
    IF Contains2(t, "*", "*")
    THEN SelectSeq([k \in 1..Len(split(t)) |-> Run(split(t)[k], FALSE)], keep_nonempty)
    ELSE <<Run(t, FALSE)>>

\* add_compact_bullet, the runs after the glyph: an even-indexed part gives
\* a plain run when it is not empty, an odd-indexed part always gives a bold
\* run; a text without '**' gives one plain run.
add_compact_bullet_runs(t) ==
    IF Contains2(t, "*", "*")
    THEN SelectSeq(part_runs(split(t)), keep_nonempty_or_bold)
    ELSE <<Run(t, FALSE)>>

\* left_indent = Inches(0.15) = 216 twips
add_bullet(t) == Paragraph(<<bullet_run>> \o add_bullet_runs(t), <<216>>, <<>>)

\* left_indent = Inches(0.2) = 288 twips
add_compact_bullet(t) == Paragraph(<<bullet_run>> \o add_compact_bullet_runs(t), <<288>>, <<>>)

(***************************************************************************)
(* The bullet builders as operations on a cell.                            *)
(***************************************************************************)
BulletChars == {"a", "b", "*"}

\* 'Built **React** apps'
BuiltReactApps ==
    <<"B", "u", "i", "l", "t", " ", "*", "*", "R", "e", "a", "c", "t", "*", "*",
      " ", "a", "p", "p", "s">>

BulletTexts == SeqsUpTo(BulletChars, MaxBulletLen) \cup {BuiltReactApps}

IconKeys == {"location", "email", "phone"}

NoCall == [op |-> "none", icon_key |-> "none", is_left_column |-> FALSE,
           template |-> "none", pos |-> 0]

BulletCall(name) == [NoCall EXCEPT !.op = name]

\* the entry of log for a call c with text t that appended paragraphs
\* first..last of the cell
LogEntry(c, t, first, last) == [call |-> c, text |-> t, first |-> first, last |-> last]

Edges == {"top", "bottom", "left", "right"}

Margins(t, b, l, r) == [top |-> t, bottom |-> b, left |-> l, right |-> r]

\* before Document() is called there is no tree
NoDocument == [margins |-> Margins(0, 0, 0, 0), tables |-> <<>>]

NoLayoutCall == [op |-> "none", args |-> <<>>, before |-> NoDocument, n |-> 0]

LayoutIdle ==
    /\ driver = "none"
    /\ dpc = "idle"
    /\ step = 0
    /\ doc = NoDocument
    /\ saved = <<>>
    /\ error = "none"
    /\ lcall = NoLayoutCall
    /\ lib_rejects = {}

ConverterIdle ==
    /\ pc = "idle"
    /\ docx_exists = FALSE
    /\ pdf_exists = FALSE
    /\ native_env = "ImportError"
    /\ ext_env = <<>>
    /\ idx = 0
    /\ attempts = <<>>
    /\ result = "none"

InitBullet ==
    /\ text \in BulletTexts
    /\ icons = [k \in IconKeys |-> "missing"]
    /\ cell = <<empty_paragraph>>
    /\ call = NoCall
    /\ ret = 0
    /\ out = <<>>
    /\ log = <<>>
    /\ ConverterIdle
    /\ LayoutIdle

\* cell.add_paragraph() and the runs added to it; the paragraph is returned
Call_add_bullet ==
    /\ Len(cell) <= MaxCalls
    /\ cell' = Append(cell, add_bullet(text))
    /\ call' = BulletCall("add_bullet")
    /\ ret' = Len(cell) + 1
    /\ log' = Append(log, LogEntry(call', text, Len(cell) + 1, Len(cell')))
    /\ UNCHANGED <<text, icons, out>>
    /\ UNCHANGED converter_vars
    /\ UNCHANGED layout_vars

Call_add_compact_bullet ==
    /\ Len(cell) <= MaxCalls
    /\ cell' = Append(cell, add_compact_bullet(text))
    /\ call' = BulletCall("add_compact_bullet")
    /\ ret' = Len(cell) + 1
    /\ log' = Append(log, LogEntry(call', text, Len(cell) + 1, Len(cell')))
    /\ UNCHANGED <<text, icons, out>>
    /\ UNCHANGED converter_vars
    /\ UNCHANGED layout_vars

NextBullet == Call_add_bullet \/ Call_add_compact_bullet

SpecBullet == InitBullet /\ [][NextBullet]_vars

(***************************************************************************)
(* The icon-bearing builders.  An icon file is "missing" (os.path.exists   *)
(* is False), "unreadable" (it exists and add_picture raises) or "ok".     *)
(***************************************************************************)
\* the keys of ICON_FILES
ICON_FILES ==
    {"profile", "skills", "education", "certificates", "findmeonline", "experience",
     "projects", "external_link", "location", "email", "phone"}

\* os.path.exists of the icon file of key k; a key with no file on record
\* names a path that does not exist
file_exists(k, ic) == k \in DOMAIN ic /\ ic[k] # "missing"

\* a faulty variant: the os.path.exists test dropped (every known key gives a path)
get_icon_path_unchecked(icon_key, ic) ==
    IF icon_key \notin ICON_FILES THEN "none" ELSE icon_key

\* get_icon_path: None ("none") for a key that is not in ICON_FILES or
\* whose file does not exist, else the path (named by its key)
get_icon_path(icon_key, ic) ==
    IF icon_key \notin ICON_FILES THEN "none"
    ELSE IF file_exists(icon_key, ic) THEN icon_key
    ELSE "none"

\* p.add_run() followed by a successful add_picture
picture_run == [text |-> <<>>, bold |-> FALSE, noBreak |-> FALSE, picture |-> TRUE]

\* p.add_run() alone: what is left when add_picture raises
empty_run == Run(<<>>, FALSE)

\* add_picture(path) succeeds exactly when the file is there and readable
picture_loads(k, ic) == k \in DOMAIN ic /\ ic[k] = "ok"

\* text.replace(' ', NBSP)
replace_spaces(t) == [i \in 1..Len(t) |-> IF t[i] = " " THEN "NBSP" ELSE t[i]]

\* text.upper() on the characters the model draws
upper(t) == [i \in 1..Len(t) |-> IF t[i] = "a" THEN "A" ELSE IF t[i] = "b" THEN "B" ELSE t[i]]

\* add_sidebar_text_with_icon: the icon run when the file exists (left
\* empty when add_picture raises: the bare except passes), then a one-space
\* spacer run, then the text run; a text holding '@' has its spaces
\* replaced and its run marked w:noBreak.  left_indent = Pt(0).
add_sidebar_text_with_icon(icon_path, t, ic) ==
    Paragraph(
        (IF file_exists(icon_path, ic)
         THEN (IF picture_loads(icon_path, ic) THEN <<picture_run>> ELSE <<empty_run>>)
         ELSE <<>>)
        \o <<Run(<<" ">>, FALSE)>>
        \o (IF Contains1(t, "@")
            THEN <<[Run(replace_spaces(t), FALSE) EXCEPT !.noBreak = TRUE]>>
            ELSE <<Run(t, FALSE)>>),
        <<0>>, <<>>)

\* the try block shared by add_section_header and add_contact_header_
\* centered: the icon run and a thin-space run, or the empty run that is
\* left when add_picture raises
icon_and_space(k, ic) ==
    IF picture_loads(k, ic) THEN <<picture_run, Run(<<"THINSP">>, FALSE)>> ELSE <<empty_run>>

\* the except branch of that try block: the warning printed
icon_warning(k, ic) ==
    IF picture_loads(k, ic) THEN <<>> ELSE <<"Warning: Could not add icon">>

\* add_section_header, the label paragraph: with an icon key whose path
\* resolves, w:ind is replaced by left = -144 (in both columns) before the
\* icon is inserted; then the upper-cased bold label.
section_label(t, icon_key, is_left_column, ic) ==
    IF icon_key # "none" /\ get_icon_path(icon_key, ic) # "none"
    THEN Paragraph(icon_and_space(icon_key, ic) \o <<Run(upper(t), TRUE)>>, <<-144>>, <<>>)
    ELSE Paragraph(<<Run(upper(t), TRUE)>>, <<0>>, <<>>)

\* add_section_header, the rule paragraph: a run of one non-breaking space,
\* left_indent = Pt(0), right_indent = Inches(0.5) = 720 twips, except in
\* the left column of create_resume_rajnish_template.py: Inches(1.5) = 2160
\* and a w:pBdr holding one w:bottom: val single, sz 12, space 1, color
\* SECTION_ACCENT_COLOR
SECTION_ACCENT_COLOR == "2D5A5A"

bottom_border == [side |-> "bottom", val |-> "single", sz |-> 12, space |-> 1,
                  color |-> SECTION_ACCENT_COLOR]

\* a faulty variant: the rule paragraph is left without its border
section_rule_without_border(is_left_column, template) ==
    Paragraph(<<Run(<<"NBSP">>, FALSE)>>, <<0>>,
              IF is_left_column /\ template = "rajnish" THEN <<2160>> ELSE <<720>>)

\* border_p: the paragraph_format settings come first and create the
\* paragraph's w:pPr; then pPr = OxmlElement('w:pPr') with the w:pBdr is
\* inserted as the paragraph's first child, before the one that is there
section_rule(is_left_column, template) ==
    LET border_p == Paragraph(<<Run(<<"NBSP">>, FALSE)>>, <<0>>,
                              IF is_left_column /\ template = "rajnish"
                              THEN <<2160>> ELSE <<720>>)
    IN  [border_p EXCEPT !.borders = <<bottom_border>>,
                         !.pPr = <<{"pBdr"}>> \o border_p.pPr]

\* add_section_header: the two paragraphs appended
add_section_header(t, icon_key, is_left_column, template, ic) ==
    <<section_label(t, icon_key, is_left_column, ic), section_rule(is_left_column, template)>>

\* what add_section_header prints
add_section_header_prints(icon_key, ic) ==
    IF icon_key # "none" /\ get_icon_path(icon_key, ic) # "none"
    THEN icon_warning(icon_key, ic) ELSE <<>>

contact_keys == <<"location", "email", "phone">>

\* add_contact_header_centered, item i of items: the icon when its path
\* resolves, the text run (marked w:noBreak when the text holds '@', its
\* spaces kept), and a two-space separator after all but the last item
contact_item(i, items, ic) ==
    (IF get_icon_path(contact_keys[i], ic) # "none"
     THEN icon_and_space(contact_keys[i], ic) ELSE <<>>)
    \o <<[Run(items[i], FALSE) EXCEPT !.noBreak = Contains1(items[i], "@")]>>
    \o (IF i < Len(items) THEN <<Run(<<" ", " ">>, FALSE)>> ELSE <<>>)

add_contact_header_centered(items, ic) ==
    Paragraph(contact_item(1, items, ic) \o contact_item(2, items, ic)
              \o contact_item(3, items, ic), <<>>, <<>>)

contact_item_prints(i, ic) ==
    IF get_icon_path(contact_keys[i], ic) # "none" THEN icon_warning(contact_keys[i], ic)
    ELSE <<>>

add_contact_header_centered_prints(ic) ==
    contact_item_prints(1, ic) \o contact_item_prints(2, ic) \o contact_item_prints(3, ic)

(***************************************************************************)
(* The icon-bearing builders as operations: one call on a fresh cell.      *)
(***************************************************************************)
TextChars == {"a", " ", "@"}

IconTexts == SeqsUpTo(TextChars, MaxTextLen)

IconStates == {"missing", "unreadable", "ok"}

\* the two contact items that are not the text under test
OtherItemA == <<"a", " ", "a">>
OtherItemB == <<"a", "a">>

\* (location, email, phone) with the text under test in position pos
ContactItems(t, pos) ==
    IF pos = 1 THEN <<t, OtherItemA, OtherItemB>>
    ELSE IF pos = 2 THEN <<OtherItemA, t, OtherItemB>>
    ELSE <<OtherItemA, OtherItemB, t>>

InitIcon ==
    /\ text \in IconTexts
    /\ icons \in [IconKeys -> IconStates]
    /\ cell = <<empty_paragraph>>
    /\ call = NoCall
    /\ ret = 0
    /\ out = <<>>
    /\ log = <<>>
    /\ ConverterIdle
    /\ LayoutIdle

Call_add_sidebar_text_with_icon ==
    /\ call.op = "none"
    /\ \E k \in IconKeys \cup {"unknown"} :
         /\ cell' = Append(cell, add_sidebar_text_with_icon(k, text, icons))
         /\ call' = [NoCall EXCEPT !.op = "add_sidebar_text_with_icon", !.icon_key = k]
    /\ ret' = Len(cell) + 1
    /\ log' = Append(log, LogEntry(call', text, Len(cell) + 1, Len(cell')))
    /\ UNCHANGED <<text, icons, out>>
    /\ UNCHANGED converter_vars
    /\ UNCHANGED layout_vars

Call_add_section_header ==
    /\ call.op = "none"
    /\ \E k \in {"none", "location", "unknown"}, left \in BOOLEAN,
          tmpl \in {"react", "rajnish"} :
         /\ cell' = cell \o add_section_header(text, k, left, tmpl, icons)
         /\ out' = out \o add_section_header_prints(k, icons)
         /\ call' = [NoCall EXCEPT !.op = "add_section_header", !.icon_key = k,
                                   !.is_left_column = left, !.template = tmpl]
    /\ ret' = Len(cell) + 1
    /\ log' = Append(log, LogEntry(call', text, Len(cell) + 1, Len(cell')))
    /\ UNCHANGED <<text, icons>>
    /\ UNCHANGED converter_vars
    /\ UNCHANGED layout_vars

Call_add_contact_header_centered ==
    /\ call.op = "none"
    /\ \E pos \in 1..3 :
         /\ cell' = Append(cell, add_contact_header_centered(ContactItems(text, pos), icons))
         /\ call' = [NoCall EXCEPT !.op = "add_contact_header_centered", !.pos = pos]
    /\ out' = out \o add_contact_header_centered_prints(icons)
    /\ ret' = Len(cell) + 1
    /\ log' = Append(log, LogEntry(call', text, Len(cell) + 1, Len(cell')))
    /\ UNCHANGED <<text, icons>>
    /\ UNCHANGED converter_vars
    /\ UNCHANGED layout_vars

NextIcon ==
    \/ Call_add_sidebar_text_with_icon
    \/ Call_add_section_header
    \/ Call_add_contact_header_centered

SpecIcon == InitIcon /\ [][NextIcon]_vars

(***************************************************************************)
(* convert_docx_to_pdf.  The environment of a run is drawn in the initial  *)
(* state: whether the input and a (stale) output file exist, what docx2pdf *)
(* does ("ImportError": it cannot be imported; "raises": convert raises an  *)
(* Exception; "SystemExit": convert leaves through sys.exit; "returns":    *)
(* convert returns) and what launching each LibreOffice path does          *)
(* ("FileNotFoundError": no such binary; "TimeoutExpired": cut off after   *)
(* 30 s; "OSError": any other launch error, such as permission denied;     *)
(* "KeyboardInterrupt": interrupted while waiting; "exit0" and "nonzero":  *)
(* the process ran and exited).  A conversion that ran may leave the       *)
(* output file present or absent.                                          *)
(***************************************************************************)
libreoffice_paths ==
    <<"/Applications/LibreOffice.app/Contents/MacOS/soffice", "libreoffice", "soffice">>

\* what the docx2pdf step can do: the import fails, convert raises an
\* Exception, convert leaves through sys.exit (a BaseException), or returns
NativeOutcomes == {"ImportError", "raises", "SystemExit", "returns"}

\* what subprocess.run can do for one path: raise (the binary is missing,
\* the 30 s timeout, another OSError, an interrupt while waiting), or return
\* a completed process
ExternalOutcomes ==
    {"FileNotFoundError", "TimeoutExpired", "OSError", "KeyboardInterrupt", "exit0", "nonzero"}

\* except Exception as e: matches the subclasses of Exception only, not
\* SystemExit or KeyboardInterrupt
except_Exception_catches(o) == o \notin {"SystemExit", "KeyboardInterrupt"}

Attempt(m, o, s) == [mech |-> m, outcome |-> o, success |-> s]

InitConverter ==
    /\ pc = "start"
    /\ docx_exists \in BOOLEAN
    /\ pdf_exists \in BOOLEAN
    /\ native_env \in NativeOutcomes
    /\ ext_env \in [1..Len(libreoffice_paths) -> ExternalOutcomes]
    /\ idx = 1
    /\ attempts = <<>>
    /\ result = "none"
    /\ out = <<>>
    /\ text = <<>>
    /\ icons = [k \in IconKeys |-> "missing"]
    /\ cell = <<empty_paragraph>>
    /\ call = NoCall
    /\ ret = 0
    /\ log = <<>>
    /\ LayoutIdle

\* a faulty variant: the input file is not tested
CheckInput_without_test ==
    /\ pc = "start"
    /\ pc' = "native"
    /\ UNCHANGED <<out, result>>
    /\ UNCHANGED <<docx_exists, pdf_exists, native_env, ext_env, idx, attempts>>
    /\ UNCHANGED <<text, icons, cell, call, ret, log>>
    /\ UNCHANGED layout_vars

\* if not os.path.exists(docx_file): print the error and return False
CheckInput ==
    /\ pc = "start"
    /\ IF docx_exists
       THEN /\ pc' = "native"
            /\ UNCHANGED <<out, result>>
       ELSE /\ out' = Append(out, "Error: docx not found")
            /\ result' = "False"
            /\ pc' = "done"
    /\ UNCHANGED <<docx_exists, pdf_exists, native_env, ext_env, idx, attempts>>
    /\ UNCHANGED <<text, icons, cell, call, ret, log>>
    /\ UNCHANGED layout_vars

\* where the control is after the docx2pdf step raised o: the handler of
\* the try block falls through to method 2, an exception it does not match
\* leaves convert_docx_to_pdf
after_native_exception(o) == IF except_Exception_catches(o) THEN "external" ELSE "raised"

\* method 1: import docx2pdf and convert; success when the output file
\* exists afterwards; an Exception is printed and swallowed
TryNative ==
    /\ pc = "native"
    /\ \/ /\ native_env = "ImportError"
          /\ attempts' = Append(attempts, Attempt("docx2pdf", native_env, FALSE))
          /\ out' = Append(out, "docx2pdf failed")
          /\ pc' = after_native_exception(native_env)
          /\ UNCHANGED <<pdf_exists, result>>
       \/ /\ native_env \in {"raises", "SystemExit"}
          /\ pdf_exists' \in BOOLEAN
          /\ attempts' = Append(attempts, Attempt("docx2pdf", native_env, FALSE))
          /\ out' = out \o (IF except_Exception_catches(native_env)
                             THEN <<"Converting DOCX to PDF using docx2pdf", "docx2pdf failed">>
                             ELSE <<"Converting DOCX to PDF using docx2pdf">>)
          /\ pc' = after_native_exception(native_env)
          /\ UNCHANGED result
       \/ /\ native_env = "returns"
          /\ pdf_exists' \in BOOLEAN
          /\ attempts' = Append(attempts, Attempt("docx2pdf", native_env, pdf_exists'))
          /\ IF pdf_exists'
             THEN /\ out' = out \o <<"Converting DOCX to PDF using docx2pdf",
                                     "Successfully created">>
                  /\ result' = "True"
                  /\ pc' = "done"
             ELSE /\ out' = Append(out, "Converting DOCX to PDF using docx2pdf")
                  /\ pc' = "external"
                  /\ UNCHANGED result
    /\ UNCHANGED <<docx_exists, native_env, ext_env, idx>>
    /\ UNCHANGED <<text, icons, cell, call, ret, log>>
    /\ UNCHANGED layout_vars

\* the exceptions subprocess.run raises
launch_raises(o) == o \in {"FileNotFoundError", "TimeoutExpired", "OSError", "KeyboardInterrupt"}

\* a faulty variant: the inner except catches FileNotFoundError only
inner_except_catches_missing_only(o) == o = "FileNotFoundError"

\* except (FileNotFoundError, subprocess.TimeoutExpired): continue
inner_except_catches(o) == o \in {"FileNotFoundError", "TimeoutExpired"}

\* a faulty variant: the exit code alone decides
declared_success_by_exit_code(o, pdf_after) == o = "exit0"

\* if result.returncode == 0 and os.path.exists(pdf_file)
declared_success(o, pdf_after) == o = "exit0" /\ pdf_after

\* a faulty variant: the loop does not advance
candidate_after_same(i) == i

\* for lo_path in libreoffice_paths: the index of the next iteration
candidate_after(i) == i + 1

\* where the control is after candidate i did not succeed: the next
\* iteration, or past the loop
next_candidate(i) == IF i < Len(libreoffice_paths) THEN "external" ELSE "remediation"

\* method 2, one pass of the loop over libreoffice_paths: subprocess.run
\* with timeout=30; FileNotFoundError and TimeoutExpired continue with the
\* next path; any other Exception leaves the loop through the outer except,
\* which prints it; an exception no handler matches leaves the function;
\* success is returncode == 0 and os.path.exists(pdf_file).
\* A process that was launched may have written or removed the output file.
TryExternal ==
    /\ pc = "external"
    /\ idx <= Len(libreoffice_paths)
    /\ pdf_exists' \in (IF ext_env[idx] \in {"FileNotFoundError", "OSError"}
                        THEN {pdf_exists} ELSE BOOLEAN)
    /\ attempts' = Append(attempts,
                          Attempt(libreoffice_paths[idx], ext_env[idx],
                                  declared_success(ext_env[idx], pdf_exists')))
    /\ IF launch_raises(ext_env[idx]) /\ ~inner_except_catches(ext_env[idx])
       THEN IF except_Exception_catches(ext_env[idx])
            THEN /\ out' = Append(out, "LibreOffice conversion failed")
                 /\ pc' = "remediation"
                 /\ UNCHANGED <<idx, result>>
            ELSE /\ pc' = "raised"
                 /\ UNCHANGED <<out, idx, result>>
       ELSE IF ~launch_raises(ext_env[idx]) /\ declared_success(ext_env[idx], pdf_exists')
       THEN /\ out' = Append(out, "Successfully created")
            /\ result' = "True"
            /\ pc' = "done"
            /\ UNCHANGED idx
       ELSE /\ idx' = candidate_after(idx)
            /\ pc' = next_candidate(idx)
            /\ UNCHANGED <<out, result>>
    /\ UNCHANGED <<docx_exists, native_env, ext_env>>
    /\ UNCHANGED <<text, icons, cell, call, ret, log>>
    /\ UNCHANGED layout_vars

\* a faulty variant: False is returned without the remediation message
Remediate_without_message ==
    /\ pc = "remediation"
    /\ result' = "False"
    /\ pc' = "done"
    /\ UNCHANGED <<out, docx_exists, pdf_exists, native_env, ext_env, idx, attempts>>
    /\ UNCHANGED <<text, icons, cell, call, ret, log>>
    /\ UNCHANGED layout_vars

\* the remediation message, then return False
Remediate ==
    /\ pc = "remediation"
    /\ out' = Append(out, "PDF conversion failed. Please try one of these options:")
    /\ result' = "False"
    /\ pc' = "done"
    /\ UNCHANGED <<docx_exists, pdf_exists, native_env, ext_env, idx, attempts>>
    /\ UNCHANGED <<text, icons, cell, call, ret, log>>
    /\ UNCHANGED layout_vars

NextConverter == CheckInput \/ TryNative \/ TryExternal \/ Remediate

SpecConverter == InitConverter /\ [][NextConverter]_vars

(***************************************************************************)
(* The page layout.  Lengths handed to the code are in hundredths of an    *)
(* inch here (0.15 in is 15), so that Inches() and the twips conversion of *)
(* set_cell_margins are integer arithmetic.                                *)
(***************************************************************************)
\* Inches(x), stored by the library in twips
Inches(h) == (h * 1440) \div 100

\* str(int(margin_value * 1440)) of set_cell_margins
margin_twips(h) == (h * 1440) \div 100

\* the page width of the default template Document() opens: 8.5 in
PageWidth == 12240

\* the section margins of that template: 1 in top and bottom, 1.25 in left
\* and right
default_margins == Margins(Inches(100), Inches(100), Inches(125), Inches(125))

edge_order == <<"top", "bottom", "left", "right">>

\* the first assignment of set_margins that the library refuses: a negative
\* length for an edge whose setter rejects one (5: none)
first_rejected(args, rej) ==
    LET bad == {i \in 1..4 : args[edge_order[i]] < 0 /\ edge_order[i] \in rej}
    IN  IF bad = {} THEN 5 ELSE CHOOSE i \in bad : \A k \in bad : i <= k

\* set_margins: four assignments, in the order top, bottom, left, right,
\* with no check of the arguments; an assignment the library refuses raises
\* ValueError and leaves the earlier ones done
set_margins(m, args, rej) ==
    LET stop == first_rejected(args, rej)
        after(i) == IF i < stop THEN Inches(args[edge_order[i]]) ELSE m[edge_order[i]]
    IN  [margins |-> Margins(after(1), after(2), after(3), after(4)),
         error |-> IF stop <= 4 THEN "ValueError" ELSE "none"]

Fragment(t, v) == [tag |-> t, val |-> v]

\* doc.add_table(rows=1, cols=n): the library spreads the block width (page
\* width less the left and right margins) evenly over the columns; each new
\* cell has a w:tcPr holding its w:tcW
add_table(n, m) ==
    [widths |-> [i \in 1..n |-> (PageWidth - m.left - m.right) \div n],
     tcPr |-> [i \in 1..n |-> <<Fragment("tcW", (PageWidth - m.left - m.right) \div n)>>],
     filled |-> FALSE]

\* set_cell_margins: a new w:tcMar is appended to the cell's w:tcPr, whether
\* or not one is there already
set_cell_margins(tcPr, args) ==
    Append(tcPr, Fragment("tcMar", Margins(margin_twips(args.top), margin_twips(args.bottom),
                                           margin_twips(args.left), margin_twips(args.right))))

\* shading = OxmlElement('w:shd'); tcPr.append(shading)
add_shading(tcPr, fill) == Append(tcPr, Fragment("shd", fill))

\* the fragments of a w:tcPr with the given tag
FragmentsOf(tcPr, t) == SelectSeq(tcPr, LAMBDA f : f.tag = t)

(***************************************************************************)
(* The four drivers.  A driver is the list of its layout statements, in    *)
(* source order; the builder calls that fill a table's cells are one       *)
(* statement ("content").                                                  *)
(***************************************************************************)
Drivers == {"twocolumn3", "app_developer", "react", "rajnish"}

SidebarDrivers == {"twocolumn3", "app_developer"}

output_file(d) ==
    CASE d = "twocolumn3" -> "Prabhat_Kumar_Resume_WebDeveloper.docx"
      [] d = "app_developer" -> "Prabhat_Kumar_Resume_AppDeveloper.docx"
      [] d = "react" -> "Prabhat-Kumar-React.docx"
      [] OTHER -> "Rajnish-Kumar.docx"

\* the arguments of the driver's set_margins call
page_margins(d) == IF d \in SidebarDrivers THEN Margins(20, 30, 30, 15) ELSE Margins(0, 0, 0, 0)

\* the split the driver declares for the two columns, in percent: "Left
\* (sidebar) = 32%, Right (main) = 68%" in the sidebar drivers, "Full page
\* width (8.5") - equal 50/50 split" in the template drivers
declared_split(d) == IF d \in SidebarDrivers THEN <<32, 68>> ELSE <<50, 50>>

\* a faulty variant: the main column is an inch wider
column_widths_overflowing(d) ==
    IF d \in SidebarDrivers THEN <<Inches(220), Inches(630)>>
    ELSE IF d = "react" THEN <<Inches(240), Inches(710)>>
    ELSE <<Inches(390), Inches(560)>>

\* left_col.width, right_col.width of the two-column table
column_widths(d) ==
    IF d \in SidebarDrivers THEN <<Inches(220), Inches(530)>>
    ELSE IF d = "react" THEN <<Inches(240), Inches(610)>>
    ELSE <<Inches(390), Inches(460)>>

\* a faulty variant: the shading goes to the main (right) cell
sidebar_shading_right == [col |-> 2, fill |-> "003366"]

\* the one shading fragment of the sidebar drivers: left cell, fill 003366
sidebar_shading == [col |-> 1, fill |-> "003366"]

Stmt(o, t, c, a) == [op |-> o, table |-> t, col |-> c, arg |-> a]

\* create_twocolumn_resume of create_resume_twocolumn3.py and of create_
\* resume_app_developer.py
sidebar_script(d) ==
    <<Stmt("Document", 0, 0, <<>>),
      Stmt("set_margins", 0, 0, page_margins(d)),
      Stmt("add_table", 1, 0, 2),
      Stmt("set_widths", 1, 0, column_widths(d)),
      Stmt("add_shading", 1, sidebar_shading.col, sidebar_shading.fill),
      Stmt("set_cell_margins", 1, 1, Margins(0, 10, 15, 10)),
      Stmt("set_cell_margins", 1, 2, Margins(0, 10, 15, 10)),
      Stmt("content", 1, 0, <<>>),
      Stmt("save", 0, 0, output_file(d)),
      Stmt("print", 0, 0, <<>>)>>

header_cell_margins(d) == IF d = "react" THEN Margins(4, 12, 0, 0) ELSE Margins(30, 40, 0, 0)

left_cell_margins(d) == IF d = "react" THEN Margins(0, 0, 45, 20) ELSE Margins(0, 0, 55, 20)

right_cell_margins(d) == IF d = "react" THEN Margins(0, 0, 0, 10) ELSE Margins(0, 0, 0, 20)

\* create_prabhat_resume of create_resume_react_template.py and create_
\* rajnish_resume of create_resume_rajnish_template.py: a one-cell header
\* table, then the two-column table
template_script(d) ==
    <<Stmt("Document", 0, 0, <<>>),
      Stmt("set_margins", 0, 0, page_margins(d)),
      Stmt("add_table", 1, 0, 1),
      Stmt("set_widths", 1, 0, <<Inches(850)>>),
      Stmt("add_shading", 1, 1, "F5F5F5"),
      Stmt("set_cell_margins", 1, 1, header_cell_margins(d)),
      Stmt("content", 1, 0, <<>>),
      Stmt("add_table", 2, 0, 2),
      Stmt("set_widths", 2, 0, column_widths(d)),
      Stmt("set_cell_margins", 2, 1, left_cell_margins(d)),
      Stmt("set_cell_margins", 2, 2, right_cell_margins(d)),
      Stmt("add_shading", 2, 1, "FFFFFF"),
      Stmt("add_shading", 2, 2, "FFFFFF"),
      Stmt("content", 2, 0, <<>>),
      Stmt("save", 0, 0, output_file(d)),
      Stmt("print", 0, 0, <<>>)>>

Script(d) == IF d \in SidebarDrivers THEN sidebar_script(d) ELSE template_script(d)

\* the statement the driver is at
Cur == Script(driver)[step]

LibraryNotFound == "Error: python-docx not found"

At(o) == dpc = "run" /\ step \in 1..Len(Script(driver)) /\ Cur.op = o

BuilderIdle ==
    /\ text = <<>>
    /\ icons = [k \in IconKeys |-> "missing"]
    /\ cell = <<empty_paragraph>>
    /\ call = NoCall
    /\ ret = 0
    /\ out = <<>>
    /\ log = <<>>

InitDriver ==
    /\ driver \in Drivers
    /\ dpc = "import"
    /\ step = 1
    /\ doc = NoDocument
    /\ saved = <<>>
    /\ error = "none"
    /\ lcall = NoLayoutCall
    /\ lib_rejects = {"left", "right"}   \* no driver passes a negative margin
    /\ BuilderIdle
    /\ ConverterIdle

\* the module's top-level statements, run before the __main__ block is
\* reached: from docx import Document, ... ; with python-docx missing the
\* first of them raises ImportError, outside every try statement, and the
\* interpreter ends the script with the traceback
Import_docx ==
    /\ dpc = "import"
    /\ \E installed \in BOOLEAN :
         IF installed
         THEN dpc' = "run" /\ error' = error
         ELSE dpc' = "uncaught" /\ error' = "ImportError"
    /\ UNCHANGED <<driver, step, doc, saved, lcall, lib_rejects>>
    /\ UNCHANGED builder_vars
    /\ UNCHANGED converter_vars

\* doc = Document()
Step_Document ==
    /\ At("Document")
    /\ doc' = [margins |-> default_margins, tables |-> <<>>]
    /\ step' = step + 1
    /\ UNCHANGED <<driver, dpc, saved, error, lcall, lib_rejects>>
    /\ UNCHANGED builder_vars
    /\ UNCHANGED converter_vars

\* set_margins(section, top, bottom, left, right)
Step_set_margins ==
    /\ At("set_margins")
    /\ LET r == set_margins(doc.margins, Cur.arg, lib_rejects)
       IN  /\ doc' = [doc EXCEPT !.margins = r.margins]
           /\ error' = r.error
           /\ IF r.error = "none"
              THEN step' = step + 1 /\ dpc' = dpc
              ELSE step' = step /\ dpc' = "raised"
    /\ UNCHANGED <<driver, saved, lcall, lib_rejects>>
    /\ UNCHANGED builder_vars
    /\ UNCHANGED converter_vars

\* doc.add_table(rows=1, cols=n)
Step_add_table ==
    /\ At("add_table")
    /\ doc' = [doc EXCEPT !.tables = Append(@, add_table(Cur.arg, doc.margins))]
    /\ step' = step + 1
    /\ UNCHANGED <<driver, dpc, saved, error, lcall, lib_rejects>>
    /\ UNCHANGED builder_vars
    /\ UNCHANGED converter_vars

\* table.columns[i].width = Inches(w), for each column
Step_set_widths ==
    /\ At("set_widths")
    /\ doc' = [doc EXCEPT !.tables[Cur.table].widths = Cur.arg]
    /\ step' = step + 1
    /\ UNCHANGED <<driver, dpc, saved, error, lcall, lib_rejects>>
    /\ UNCHANGED builder_vars
    /\ UNCHANGED converter_vars

\* the w:shd block of a cell
Step_add_shading ==
    /\ At("add_shading")
    /\ doc' = [doc EXCEPT !.tables[Cur.table].tcPr[Cur.col] = add_shading(@, Cur.arg)]
    /\ step' = step + 1
    /\ UNCHANGED <<driver, dpc, saved, error, lcall, lib_rejects>>
    /\ UNCHANGED builder_vars
    /\ UNCHANGED converter_vars

\* set_cell_margins(cell, top, bottom, left, right)
Step_set_cell_margins ==
    /\ At("set_cell_margins")
    /\ doc' = [doc EXCEPT !.tables[Cur.table].tcPr[Cur.col] = set_cell_margins(@, Cur.arg)]
    /\ step' = step + 1
    /\ UNCHANGED <<driver, dpc, saved, error, lcall, lib_rejects>>
    /\ UNCHANGED builder_vars
    /\ UNCHANGED converter_vars

\* the builder calls that fill the cells of a table
Step_content ==
    /\ At("content")
    /\ doc' = [doc EXCEPT !.tables[Cur.table].filled = TRUE]
    /\ step' = step + 1
    /\ UNCHANGED <<driver, dpc, saved, error, lcall, lib_rejects>>
    /\ UNCHANGED builder_vars
    /\ UNCHANGED converter_vars

\* a faulty variant: the document is written twice
Step_save_twice ==
    /\ At("save")
    /\ saved' = saved \o <<Cur.arg, Cur.arg>>
    /\ step' = step + 1
    /\ UNCHANGED <<driver, dpc, doc, error, lcall, lib_rejects>>
    /\ UNCHANGED builder_vars
    /\ UNCHANGED converter_vars

\* doc.save(output_file)
Step_save ==
    /\ At("save")
    /\ saved' = Append(saved, Cur.arg)
    /\ step' = step + 1
    /\ UNCHANGED <<driver, dpc, doc, error, lcall, lib_rejects>>
    /\ UNCHANGED builder_vars
    /\ UNCHANGED converter_vars

\* the closing print; the driver function returns
Step_print ==
    /\ At("print")
    /\ out' = Append(out, "Resume created")
    /\ step' = step + 1
    /\ dpc' = "done"
    /\ UNCHANGED <<driver, doc, saved, error, lcall, lib_rejects>>
    /\ UNCHANGED <<text, icons, cell, call, ret, log>>
    /\ UNCHANGED converter_vars

\* the library call of the statement raises (a missing template, a full
\* disk, a file that cannot be written): the statement has no effect and
\* the exception leaves the driver function
Step_raises ==
    /\ dpc = "run"
    /\ step \in 1..Len(Script(driver))
    /\ Cur.op # "print"
    /\ error' = "Exception"
    /\ dpc' = "raised"
    /\ UNCHANGED <<driver, step, doc, saved, lcall, lib_rejects>>
    /\ UNCHANGED builder_vars
    /\ UNCHANGED converter_vars

\* __main__: except ImportError: print the install instruction;
\* except Exception as e: print, traceback.print_exc()
Handle_exception ==
    /\ dpc = "raised"
    /\ out' = Append(out, IF error = "ImportError" THEN LibraryNotFound ELSE "Error")
    /\ dpc' = "done"
    /\ UNCHANGED <<driver, step, doc, saved, error, lcall, lib_rejects>>
    /\ UNCHANGED <<text, icons, cell, call, ret, log>>
    /\ UNCHANGED converter_vars

NextDriver ==
    \/ Import_docx
    \/ Step_Document
    \/ Step_set_margins
    \/ Step_add_table
    \/ Step_set_widths
    \/ Step_add_shading
    \/ Step_set_cell_margins
    \/ Step_content
    \/ Step_save
    \/ Step_print
    \/ Step_raises
    \/ Handle_exception

SpecDriver == InitDriver /\ [][NextDriver]_vars

(***************************************************************************)
(* The layout helpers as operations: calls of set_margins and of set_cell_ *)
(* margins, with any arguments, on the document create_twocolumn_resume    *)
(* has once its table is laid out.  Which of the library's margin setters  *)
(* reject a negative length is drawn in the initial state.                 *)
(***************************************************************************)
MarginValues == {-100, 30}

MarginArgs == [top : MarginValues, bottom : MarginValues, left : MarginValues,
               right : MarginValues]

LaidOut ==
    LET m == set_margins(default_margins, page_margins("twocolumn3"), {}).margins
    IN  [margins |-> m,
         tables |-> <<[add_table(2, m) EXCEPT !.widths = column_widths("twocolumn3")]>>]

InitLayout ==
    /\ driver = "none"
    /\ dpc = "idle"
    /\ step = 0
    /\ doc = LaidOut
    /\ saved = <<>>
    /\ error = "none"
    /\ lcall = NoLayoutCall
    /\ lib_rejects \in SUBSET Edges
    /\ BuilderIdle
    /\ ConverterIdle

Call_set_margins ==
    /\ error = "none"
    /\ lcall.n < MaxCalls
    /\ \E args \in MarginArgs :
         LET r == set_margins(doc.margins, args, lib_rejects)
         IN  /\ doc' = [doc EXCEPT !.margins = r.margins]
             /\ error' = r.error
             /\ lcall' = [op |-> "set_margins", args |-> args, before |-> doc,
                          n |-> lcall.n + 1]
    /\ UNCHANGED <<driver, dpc, step, saved, lib_rejects>>
    /\ UNCHANGED builder_vars
    /\ UNCHANGED converter_vars

Call_set_cell_margins ==
    /\ error = "none"
    /\ lcall.n < MaxCalls
    /\ \E c \in 1..2 :
         /\ doc' = [doc EXCEPT !.tables[1].tcPr[c] = set_cell_margins(@, Margins(0, 10, 15, 10))]
         /\ lcall' = [op |-> "set_cell_margins", args |-> <<c>>, before |-> doc,
                      n |-> lcall.n + 1]
    /\ UNCHANGED <<driver, dpc, step, saved, error, lib_rejects>>
    /\ UNCHANGED builder_vars
    /\ UNCHANGED converter_vars

NextLayout == Call_set_margins \/ Call_set_cell_margins

SpecLayout == InitLayout /\ [][NextLayout]_vars

(***************************************************************************)
(* All the block builders as operations on one cell: up to MaxCalls calls, *)
(* of any builders and with any of ComposeTexts, one after the other.      *)
(***************************************************************************)
\* a faulty variant: the new paragraphs are put before the cell's content
append_paragraphs_at_front(c, ps) == ps \o c

\* cell.add_paragraph(), for each paragraph a builder makes: the library
\* puts the new paragraph after the last one of the cell
append_paragraphs(c, ps) == c \o ps

\* add_sidebar_header: one bold run of text.upper()
add_sidebar_header(t) == Paragraph(<<Run(upper(t), TRUE)>>, <<>>, <<>>)

\* add_main_header: one bold run of text.upper()
add_main_header(t) == Paragraph(<<Run(upper(t), TRUE)>>, <<>>, <<>>)

\* add_sidebar_text: one plain run
add_sidebar_text(t) == Paragraph(<<Run(t, FALSE)>>, <<>>, <<>>)

\* add_body_text: one plain run
add_body_text(t) == Paragraph(<<Run(t, FALSE)>>, <<>>, <<>>)

\* add_sidebar_bullet: the bold glyph run and one plain run of the text,
\* with no '**' handling; left_indent = Inches(0.15) = 216 twips
add_sidebar_bullet(t) == Paragraph(<<bullet_run, Run(t, FALSE)>>, <<216>>, <<>>)

\* the paragraphs the builder call c makes for the text t
built(c, t, ic) ==
    CASE c.op = "add_section_header"
           -> add_section_header(t, c.icon_key, c.is_left_column, c.template, ic)
      [] c.op = "add_contact_header_centered"
           -> <<add_contact_header_centered(ContactItems(t, c.pos), ic)>>
      [] c.op = "add_sidebar_text_with_icon" -> <<add_sidebar_text_with_icon(c.icon_key, t, ic)>>
      [] c.op = "add_bullet" -> <<add_bullet(t)>>
      [] c.op = "add_compact_bullet" -> <<add_compact_bullet(t)>>
      [] c.op = "add_sidebar_bullet" -> <<add_sidebar_bullet(t)>>
      [] c.op = "add_sidebar_header" -> <<add_sidebar_header(t)>>
      [] c.op = "add_main_header" -> <<add_main_header(t)>>
      [] c.op = "add_sidebar_text" -> <<add_sidebar_text(t)>>
      [] OTHER -> <<add_body_text(t)>>

\* what the builder call c prints
built_prints(c, ic) ==
    CASE c.op = "add_section_header" -> add_section_header_prints(c.icon_key, ic)
      [] c.op = "add_contact_header_centered" -> add_contact_header_centered_prints(ic)
      [] OTHER -> <<>>

ComposeTexts == {<<"a">>, <<"*", "*", "b", "*", "*", " ", "@">>}

\* every icon file missing, every one unreadable, or every one loadable
ComposeIcons == {[k \in IconKeys |-> st] : st \in IconStates}

InitCompose ==
    /\ text = <<>>
    /\ icons \in ComposeIcons
    /\ cell = <<empty_paragraph>>
    /\ call = NoCall
    /\ ret = 0
    /\ out = <<>>
    /\ log = <<>>
    /\ ConverterIdle
    /\ LayoutIdle

\* one builder call: every builder returns the first paragraph it made
Compose(c, t) ==
    /\ Len(log) < MaxCalls
    /\ text' = t
    /\ call' = c
    /\ cell' = append_paragraphs(cell, built(c, t, icons))
    /\ ret' = Len(cell) + 1
    /\ out' = out \o built_prints(c, icons)
    /\ log' = Append(log, LogEntry(c, t, Len(cell) + 1, Len(cell) + Len(built(c, t, icons))))
    /\ UNCHANGED icons
    /\ UNCHANGED converter_vars
    /\ UNCHANGED layout_vars

Compose_add_section_header ==
    \E t \in ComposeTexts, k \in {"none", "location"}, left \in BOOLEAN,
       tmpl \in {"react", "rajnish"} :
        Compose([NoCall EXCEPT !.op = "add_section_header", !.icon_key = k,
                               !.is_left_column = left, !.template = tmpl], t)

Compose_add_contact_header_centered ==
    \E t \in ComposeTexts, pos \in 1..3 :
        Compose([NoCall EXCEPT !.op = "add_contact_header_centered", !.pos = pos], t)

Compose_add_sidebar_text_with_icon ==
    \E t \in ComposeTexts :
        Compose([NoCall EXCEPT !.op = "add_sidebar_text_with_icon", !.icon_key = "email"], t)

Compose_add_bullet == \E t \in ComposeTexts : Compose(BulletCall("add_bullet"), t)

Compose_add_compact_bullet == \E t \in ComposeTexts : Compose(BulletCall("add_compact_bullet"), t)

Compose_add_sidebar_bullet == \E t \in ComposeTexts : Compose(BulletCall("add_sidebar_bullet"), t)

Compose_add_sidebar_header == \E t \in ComposeTexts : Compose(BulletCall("add_sidebar_header"), t)

Compose_add_main_header == \E t \in ComposeTexts : Compose(BulletCall("add_main_header"), t)

Compose_add_sidebar_text == \E t \in ComposeTexts : Compose(BulletCall("add_sidebar_text"), t)

Compose_add_body_text == \E t \in ComposeTexts : Compose(BulletCall("add_body_text"), t)

NextCompose ==
    \/ Compose_add_section_header
    \/ Compose_add_contact_header_centered
    \/ Compose_add_sidebar_text_with_icon
    \/ Compose_add_bullet
    \/ Compose_add_compact_bullet
    \/ Compose_add_sidebar_bullet
    \/ Compose_add_sidebar_header
    \/ Compose_add_main_header
    \/ Compose_add_sidebar_text
    \/ Compose_add_body_text

SpecCompose == InitCompose /\ [][NextCompose]_vars

(***************************************************************************)
(* The bullet builders: claims C1 to C3, checked under SpecBullet.         *)
(***************************************************************************)
BulletCalled == call.op \in {"add_bullet", "add_compact_bullet"}

\* the runs the last call emitted after the bullet glyph
EmittedRuns == Tail(cell[Len(cell)].runs)

\* the number of '**' delimiters str.split finds in t
NDelims(t) == Len(split(t)) - 1

\* run k (counted from 1) is plain when k is odd and bold when k is even
AlternatesFromPlain(rs) == \A k \in 1..Len(rs) : rs[k].bold = (k % 2 = 0)

NoEmptySegment(t) == \A k \in 1..Len(split(t)) : split(t)[k] # <<>>

\* C1 as stated: for every bullet string with an even number of '**'
\* delimiters, the runs emitted after the glyph alternate plain, bold,
\* plain, ..., starting with a plain run.
C1_AlternatesForEvenDelims ==
    (BulletCalled /\ NDelims(text) % 2 = 0) => AlternatesFromPlain(EmittedRuns)

\* C1 as amended: for every bullet string with an even number of '**'
\* delimiters none of whose segments is empty (it neither starts nor ends
\* with the delimiter and no two delimiters are adjacent), the runs emitted
\* after the glyph are one per segment and alternate plain, bold, plain,
\* ..., starting with a plain run.
C1_AlternatesWhenNoSegmentEmpty ==
    (BulletCalled /\ NDelims(text) % 2 = 0 /\ NoEmptySegment(text))
        => /\ Len(EmittedRuns) = NDelims(text) + 1
           /\ AlternatesFromPlain(EmittedRuns)

C1_Witness ==
    /\ call.op = "add_bullet"
    /\ NDelims(text) = 2
    /\ NoEmptySegment(text)
    /\ Len(EmittedRuns) = 3
    /\ EmittedRuns[2].bold

BuiltReactAppsRuns ==
    << Run(<<"B", "u", "i", "l", "t", " ">>, FALSE),
       Run(<<"R", "e", "a", "c", "t">>, TRUE),
       Run(<<" ", "a", "p", "p", "s">>, FALSE) >>

\* C3: a bullet built from "Built **React** apps" holds, after the glyph,
\* exactly the runs "Built " (plain), "React" (bold), " apps" (plain), in
\* that order, whichever of the two builders built it.
C3_BuiltReactApps ==
    text = BuiltReactApps =>
        \A k \in 2..Len(cell) : cell[k].runs = <<bullet_run>> \o BuiltReactAppsRuns

C3_Witness ==
    /\ text = BuiltReactApps
    /\ Len(cell) = 3
    /\ call.op = "add_compact_bullet"

(***************************************************************************)
(* The icon-bearing builders: claims C4 and C5, checked under SpecIcon.    *)
(***************************************************************************)
IconBuilderCalled ==
    call.op \in {"add_sidebar_text_with_icon", "add_section_header",
                 "add_contact_header_centered"}

\* the icon path(s) the last call was given do not exist
IconPathMissing ==
    \/ call.op = "add_sidebar_text_with_icon" /\ ~file_exists(call.icon_key, icons)
    \/ call.op = "add_section_header" /\ call.icon_key # "none"
         /\ ~file_exists(call.icon_key, icons)
    \/ call.op = "add_contact_header_centered" /\ \A k \in IconKeys : icons[k] = "missing"

\* the runs of the paragraph the last call returned
ReturnedRuns == cell[ret].runs

\* C4 as stated: an icon-bearing builder given an icon path that does not
\* exist produces a paragraph that holds only the text run of the given
\* text (one run, no picture).
C4_OnlyTheTextRun ==
    (IconBuilderCalled /\ IconPathMissing)
        => /\ Len(ReturnedRuns) = 1
           /\ ~ReturnedRuns[1].picture
           /\ ReturnedRuns[1].text \in {text, upper(text), replace_spaces(text)}

\* C4 as amended: an icon-bearing builder given an icon path that does not
\* exist produces a paragraph with no picture run and no thin-space icon
\* spacer: add_section_header's label paragraph holds only the run of the
\* upper-cased text and is followed by the rule paragraph, add_sidebar_text_
\* with_icon's paragraph holds its one-space spacer run and then the text
\* run, and add_contact_header_centered's paragraph holds the three item
\* runs with a two-space separator run between them.
C4_NoIconRunsWhenPathMissing ==
    (IconBuilderCalled /\ IconPathMissing)
        => /\ \A i \in 1..Len(ReturnedRuns) :
                ~ReturnedRuns[i].picture /\ ReturnedRuns[i].text # <<"THINSP">>
           /\ call.op = "add_section_header"
                => /\ ReturnedRuns = <<Run(upper(text), TRUE)>>
                   /\ Len(cell) = ret + 1
           /\ call.op = "add_sidebar_text_with_icon"
                => /\ Len(ReturnedRuns) = 2
                   /\ ReturnedRuns[1] = Run(<<" ">>, FALSE)
                   /\ ReturnedRuns[2].text =
                        IF Contains1(text, "@") THEN replace_spaces(text) ELSE text
           /\ call.op = "add_contact_header_centered"
                => /\ Len(ReturnedRuns) = 5
                   /\ <<ReturnedRuns[1].text, ReturnedRuns[3].text, ReturnedRuns[5].text>>
                        = ContactItems(text, call.pos)
                   /\ ReturnedRuns[2] = Run(<<" ", " ">>, FALSE)
                   /\ ReturnedRuns[4] = Run(<<" ", " ">>, FALSE)

C4_Witness ==
    /\ call.op = "add_section_header"
    /\ call.icon_key = "location"
    /\ icons["location"] = "missing"
    /\ text = <<"a", " ", "a">>
    /\ Len(cell) = 3

\* C5: in every icon+text row builder, a text that holds '@' is emitted as
\* a run marked w:noBreak in which every space is replaced by a
\* non-breaking space.
C5_EmailRunNoBreakNoSpaces ==
    (call.op \in {"add_sidebar_text_with_icon", "add_contact_header_centered"}
       /\ Contains1(text, "@"))
        => \E i \in 1..Len(ReturnedRuns) :
             /\ ReturnedRuns[i].noBreak
             /\ ReturnedRuns[i].text = replace_spaces(text)

(***************************************************************************)
(* convert_docx_to_pdf: claims C6 to C10, checked under SpecConverter.     *)
(***************************************************************************)
RemediationMessage == "PDF conversion failed. Please try one of these options:"

Count(seq, x) == Cardinality({i \in 1..Len(seq) : seq[i] = x})

\* the mechanisms in priority order
Mechanisms == <<"docx2pdf">> \o libreoffice_paths

AttemptedMechanisms == [i \in 1..Len(attempts) |-> attempts[i].mech]

\* docx2pdf cannot be imported or raises, and no LibreOffice binary can be
\* launched
NoMechanismAvailable ==
    /\ native_env \in {"ImportError", "raises"}
    /\ \A i \in 1..Len(libreoffice_paths) : ext_env[i] \in {"FileNotFoundError", "OSError"}

C7_SuccessOnlyWithOutputFile ==
    /\ result = "True" => (pdf_exists /\ attempts # <<>> /\ Last(attempts).success)
    /\ \A i \in 1..Len(attempts) :
         (attempts[i].success /\ attempts[i].mech # "docx2pdf")
            => (attempts[i].outcome = "exit0" /\ i = Len(attempts) /\ pdf_exists)

C7_Witness ==
    /\ result = "True"
    /\ pdf_exists
    /\ Len(attempts) = 3
    /\ attempts[3].outcome = "exit0"
    /\ attempts[2].outcome = "exit0"

\* C8: a run (whose input file exists) ends either SUCCEEDED, with the
\* output file on disk, or FAILED after the native converter and each of
\* the three external paths have been attempted.
C8_FailedOnlyAfterEveryCandidate ==
    (pc = "done" /\ docx_exists)
        => \/ result = "True" /\ pdf_exists
           \/ result = "False" /\ AttemptedMechanisms = Mechanisms

\* C9: the mechanisms are attempted in priority order (docx2pdf, then the
\* paths of libreoffice_paths in list order), each at most once, and none
\* is attempted after one has succeeded.
C9_PriorityOrderOnceEach ==
    /\ Len(attempts) <= Len(Mechanisms)
    /\ \A i \in 1..Len(attempts) : i <= Len(Mechanisms) => attempts[i].mech = Mechanisms[i]
    /\ \A i \in 1..Len(attempts) :
         attempts[i].success => (i = Len(attempts) /\ result = "True" /\ pc = "done")
    /\ pc = "done" => ~ENABLED NextConverter

C9_Witness ==
    /\ result = "True"
    /\ Len(attempts) = 3
    /\ attempts[1].outcome = "raises"
    /\ attempts[2].outcome = "nonzero"
    /\ attempts[3].success

CandidateFailures == {"nonzero", "FileNotFoundError", "TimeoutExpired"}

\* C10: a non-zero exit code, a missing binary or a timeout of an external
\* candidate fails that candidate only: the next path of the list, if any,
\* is attempted next, and no path is attempted twice.
C10_FailureAdvancesToNextCandidate ==
    /\ \A i \in 2..Len(attempts) :
         (attempts[i].outcome \in CandidateFailures /\ i - 1 < Len(libreoffice_paths))
            => IF i < Len(attempts)
               THEN attempts[i + 1].mech = libreoffice_paths[i]
               ELSE /\ pc = "external"
                    /\ idx = i
                    /\ result = "none"
                    /\ ENABLED TryExternal
    /\ \A i, k \in 1..Len(attempts) : attempts[i].mech = attempts[k].mech => i = k

C10_Witness ==
    /\ Len(attempts) = 4
    /\ attempts[2].outcome = "TimeoutExpired"
    /\ attempts[3].outcome = "nonzero"
    /\ attempts[4].outcome = "FileNotFoundError"
    /\ pc = "done"

(***************************************************************************)
(* The converter's error handling: claims C11 and C12, under               *)
(* SpecConverter.                                                          *)
(***************************************************************************)
NativeRaised ==
    /\ attempts # <<>>
    /\ attempts[1].outcome \in {"ImportError", "raises", "SystemExit"}

\* C11: when the docx2pdf step raises any exception (the failed import
\* included), docx2pdf is not attempted again and the converter goes on to
\* the external candidates: the first path of libreoffice_paths is the next
\* attempt.
C11_NativeFailureProceedsToExternal ==
    NativeRaised
        => /\ \A i \in 2..Len(attempts) : attempts[i].mech # "docx2pdf"
           /\ IF Len(attempts) = 1
              THEN pc = "external" /\ idx = 1 /\ ENABLED TryExternal
              ELSE attempts[2].mech = libreoffice_paths[1]

\* C12: no exception leaves convert_docx_to_pdf, whatever the docx2pdf step
\* and the process launches raise; a run that found no working mechanism
\* prints the remediation message and returns False.
C12_NeverPropagates ==
    /\ pc # "raised"
    /\ (pc = "done" /\ docx_exists /\ result # "True")
          => (result = "False" /\ Count(out, RemediationMessage) = 1)

(***************************************************************************)
(* The icon-bearing builders again: claims C16 and C20, under SpecIcon.    *)
(***************************************************************************)
IconWarning == "Warning: Could not add icon"

\* C16: whenever an icon-bearing builder is given an icon whose file path
\* does not resolve, a warning is logged, and the builder goes on to render
\* the text.
C16_WarningWhenPathMissing ==
    (IconBuilderCalled /\ IconPathMissing)
        => /\ Count(out, IconWarning) >= 1
           /\ \E i \in 1..Len(ReturnedRuns) :
                ReturnedRuns[i].text \in {text, upper(text), replace_spaces(text)}

\* the icon of the last add_section_header call was loaded into the label
SectionIconLoaded ==
    /\ call.icon_key # "none"
    /\ get_icon_path(call.icon_key, icons) # "none"
    /\ picture_loads(call.icon_key, icons)

\* C20: add_section_header appends exactly two paragraphs.  The first is
\* the label paragraph, which is the one returned: its last run is the text
\* upper-cased and bold; with a loaded icon the runs before it are exactly
\* the picture run and the thin-space run, and without one no run before it
\* holds a picture or any text.  The second is the rule paragraph: one
\* non-breaking space, and exactly one border, a single bottom border in
\* SECTION_ACCENT_COLOR.
C20_SectionHeaderTwoParagraphs ==
    call.op = "add_section_header"
        => /\ Len(cell) = 3
           /\ cell[1] = empty_paragraph
           /\ ret = 2
           /\ Last(cell[2].runs) = Run(upper(text), TRUE)
           /\ cell[2].borders = <<>>
           /\ IF SectionIconLoaded
              THEN cell[2].runs = <<picture_run, Run(<<"THINSP">>, FALSE), Run(upper(text), TRUE)>>
              ELSE \A i \in 1..(Len(cell[2].runs) - 1) :
                     ~cell[2].runs[i].picture /\ cell[2].runs[i].text = <<>>
           /\ cell[3].runs = <<Run(<<"NBSP">>, FALSE)>>
           /\ Len(cell[3].borders) = 1
           /\ cell[3].borders[1].side = "bottom"
           /\ cell[3].borders[1].val = "single"
           /\ cell[3].borders[1].color = "2D5A5A"

\* a header whose icon loads, over a text of two characters
C20_Witness ==
    /\ call.op = "add_section_header"
    /\ SectionIconLoaded
    /\ Len(text) = 2
    /\ text[1] = "a"
    /\ Len(cell) = 3
    /\ cell[2].runs[1].picture
    /\ cell[3].borders # <<>>

(***************************************************************************)
(* The drivers' page layout: claims C13, C14 and C17, under SpecDriver.    *)
(***************************************************************************)
\* every statement o of the running driver's script has been executed
Past(o) == \A k \in 1..Len(Script(driver)) : Script(driver)[k].op = o => k < step

ShadingOf(t, c) == FragmentsOf(doc.tables[t].tcPr[c], "shd")

\* C13: in the two-column grid of the sidebar drivers, whose column widths
\* are (2.2 in, 5.3 in), the left (sidebar) cell receives the shading
\* 003366, and the right (main) cell never holds a shading fragment.
C13_SidebarShadedMainNot ==
    (driver \in SidebarDrivers /\ doc.tables # <<>>)
        => /\ Len(doc.tables) = 1
           /\ ShadingOf(1, 2) = <<>>
           /\ Past("set_widths") => doc.tables[1].widths = <<3168, 7632>>
           /\ Past("add_shading") => ShadingOf(1, 1) = <<Fragment("shd", "003366")>>

C13_Witness ==
    /\ driver = "app_developer"
    /\ saved # <<>>
    /\ doc.tables[1].widths = <<3168, 7632>>
    /\ ShadingOf(1, 1) # <<>>
    /\ Len(doc.tables[1].tcPr[2]) = 2

RECURSIVE SumSeq(_)
SumSeq(ws) == IF ws = <<>> THEN 0 ELSE ws[1] + SumSeq(Tail(ws))

\* C14: in every driver, at every moment, the column widths of every table
\* of the document sum to no more than the page content width: the 8.5 in
\* page width less the section's left and right margins.
C14_TablesFitContentWidth ==
    driver \in Drivers
        => \A t \in 1..Len(doc.tables) :
             SumSeq(doc.tables[t].widths) <= PageWidth - doc.margins.left - doc.margins.right

\* a template driver, whose tables fill the content width exactly
C14_Witness ==
    /\ driver = "rajnish"
    /\ saved # <<>>
    /\ Len(doc.tables) = 2
    /\ doc.margins.left = 0
    /\ SumSeq(doc.tables[1].widths) = PageWidth
    /\ doc.tables[2].widths = <<5616, 6624>>

ConstructionOps ==
    {"Document", "set_margins", "add_table", "set_widths", "add_shading",
     "set_cell_margins", "content"}

\* C17: in every driver run the document is saved at most once, under the
\* script's output file name and only after every construction statement
\* has run; no step changes the document tree once it is saved; and once a
\* statement has raised, no save follows (a run in which a construction
\* statement raised has saved nothing).
C17_SavedOnceAfterConstruction ==
    /\ [](Len(saved) <= 1)
    /\ [](saved # <<>>
            => /\ saved = <<output_file(driver)>>
               /\ \A o \in ConstructionOps : Past(o))
    /\ [][saved # <<>> => doc' = doc]_vars
    /\ [](error # "none" /\ (Cur.op \in ConstructionOps \cup {"save"}) => saved = <<>>)
    /\ [][error # "none" => saved' = saved]_vars

C17_Witness ==
    /\ driver = "react"
    /\ dpc = "done"
    /\ error = "none"
    /\ saved = <<"Prabhat-Kumar-React.docx">>
    /\ doc.tables[2].filled

(***************************************************************************)
(* The layout helpers: claims C18 and C19, under SpecLayout.               *)
(***************************************************************************)
\* C18: a set_margins call given a negative margin fails with an error and
\* leaves the tree as it found it.
C18_NegativeMarginsRejected ==
    (lcall.op = "set_margins" /\ \E e \in Edges : lcall.args[e] < 0)
        => (error # "none" /\ doc = lcall.before)

\* C19: no cell's w:tcPr ever holds two margin fragments, and a set_cell_
\* margins call on a cell that already holds one is an error.
C19_NoDuplicateFragment ==
    /\ \A c \in 1..2 : Len(FragmentsOf(doc.tables[1].tcPr[c], "tcMar")) <= 1
    /\ (/\ lcall.op = "set_cell_margins"
        /\ FragmentsOf(lcall.before.tables[1].tcPr[lcall.args[1]], "tcMar") # <<>>)
          => error # "none"

(***************************************************************************)
(* The builders composed: claim C15, under SpecCompose.                    *)
(***************************************************************************)
\* C15: every builder call only appends: the paragraphs that were in the
\* cell before a call are the same, in the same places, after it; the
\* paragraphs of the cell are, in order, the cell's initial paragraph and
\* then, call by call in the order of the calls, exactly the paragraphs
\* each call made; and the paragraph a call returns is one of those it
\* appended.
C15_BuildersOnlyAppend ==
    /\ [][Len(cell') >= Len(cell) /\ SubSeq(cell', 1, Len(cell)) = cell]_vars
    /\ [](/\ cell[1] = empty_paragraph
          /\ Len(cell) = IF log = <<>> THEN 1 ELSE Last(log).last
          /\ \A i \in 1..Len(log) :
               /\ log[i].first = IF i = 1 THEN 2 ELSE log[i - 1].last + 1
               /\ log[i].last >= log[i].first
               /\ SubSeq(cell, log[i].first, log[i].last)
                    = built(log[i].call, log[i].text, icons)
          /\ log # <<>> => ret \in Last(log).first..Last(log).last)

\* a section header (two paragraphs) followed by a compact bullet
C15_Witness ==
    /\ Len(log) = 2
    /\ log[1].call.op = "add_section_header"
    /\ log[2].call.op = "add_compact_bullet"
    /\ log[1].text # log[2].text
    /\ Len(cell) = 4
    /\ ret = 4

(***************************************************************************)
(* The icon-bearing builders, column context and failed icon loads:        *)
(* claims C21 and C29, under SpecIcon.                                     *)
(***************************************************************************)
\* what the last add_section_header call would have appended had it been
\* made for the other column
OtherColumnHeader ==
    add_section_header(text, call.icon_key, ~call.is_left_column, call.template, icons)

\* C21: for add_section_header, the right indent of the rule paragraph (the
\* rule's length) and the left indent of the label paragraph (the icon's
\* horizontal offset) both differ between a left-column call and a right-
\* column call with the same other arguments.
C21_RuleAndOffsetDifferByColumn ==
    call.op = "add_section_header"
        => /\ cell[ret + 1].right_indent # OtherColumnHeader[2].right_indent
           /\ cell[ret].left_indent # OtherColumnHeader[1].left_indent

\* the icon files as they would be with every unreadable one absent
UnreadableAsMissing == [k \in IconKeys |-> IF icons[k] = "unreadable" THEN "missing" ELSE icons[k]]

\* an icon file the last call was given exists and add_picture failed on it
IconLoadFailed ==
    \/ /\ call.op \in {"add_sidebar_text_with_icon", "add_section_header"}
       /\ call.icon_key \in IconKeys
       /\ icons[call.icon_key] = "unreadable"
    \/ /\ call.op = "add_contact_header_centered"
       /\ \E k \in IconKeys : icons[k] = "unreadable"

\* the paragraph the last call would have returned with UnreadableAsMissing
\* for icon files
ParagraphWithoutTheFile ==
    CASE call.op = "add_sidebar_text_with_icon"
           -> add_sidebar_text_with_icon(call.icon_key, text, UnreadableAsMissing)
      [] call.op = "add_section_header"
           -> section_label(text, call.icon_key, call.is_left_column, UnreadableAsMissing)
      [] OTHER
           -> add_contact_header_centered(ContactItems(text, call.pos), UnreadableAsMissing)

\* C29: when an icon file exists and loading it fails, the paragraph the
\* builder returns is the one it returns when that file does not exist:
\* the same runs and the same indents.
C29_FailedLoadLeavesNoTrace ==
    (IconBuilderCalled /\ IconLoadFailed) => cell[ret] = ParagraphWithoutTheFile

(***************************************************************************)
(* The two bullet builders compared, and the text they emit: claims C22    *)
(* and C26, under SpecBullet.  Every call of a run is given the same text. *)
(***************************************************************************)
\* the (text, isEmphasized) segments of the runs after the bullet glyph
Segments(para) == [k \in 1..(Len(para.runs) - 1) |->
                     <<para.runs[k + 1].text, para.runs[k + 1].bold>>]

\* C22: add_bullet and add_compact_bullet emit the same ordered sequence of
\* (text, isEmphasized) segments after the bullet glyph for every input
\* string: any two bullets built from the same text have equal segments.
C22_SameSegments ==
    \A i, k \in 2..Len(cell) : Segments(cell[i]) = Segments(cell[k])

RECURSIVE Concat(_)
Concat(ss) == IF ss = <<>> THEN <<>> ELSE ss[1] \o Concat(Tail(ss))

\* s with every '**' removed, the delimiters found left to right without
\* overlap (Python's s.replace('**', ''))
RECURSIVE without_delims(_)
without_delims(s) ==
    IF s = <<>> THEN <<>>
    ELSE IF Len(s) >= 2 /\ s[1] = "*" /\ s[2] = "*" THEN without_delims(Tail(Tail(s)))
    ELSE <<s[1]>> \o without_delims(Tail(s))

\* the texts of the runs after the bullet glyph, joined
EmittedText(para) == Concat([k \in 1..(Len(para.runs) - 1) |-> para.runs[k + 1].text])

\* C26: for every input string and either bullet builder, the texts of the
\* runs after the bullet glyph, joined in order, are the input string with
\* every '**' removed.
C26_ContentPreserved ==
    \A i \in 2..Len(cell) : EmittedText(cell[i]) = without_delims(text)

\* both builders called on a text with a delimiter pair and a lone '*'
C26_Witness ==
    /\ text = <<"a", "*", "*", "b", "*", "*", "*">>
    /\ Len(cell) = 3
    /\ cell[2] = add_bullet(text)
    /\ cell[3] = add_compact_bullet(text)
    /\ EmittedText(cell[2]) = <<"a", "b", "*">>

(***************************************************************************)
(* The converter's termination, missing input and candidate coverage:      *)
(* claims C24, C27 and C28, under SpecConverter.                           *)
(***************************************************************************)
\* the native call returns or raises, and every external launch raises a
\* launch error, exits, or is cut off by the timeout
CallsComeBack == \A i \in 1..Len(libreoffice_paths) : ext_env[i] # "KeyboardInterrupt"

NativeAttempts == Cardinality({i \in 1..Len(attempts) : attempts[i].mech = "docx2pdf"})

ExternalAttempts == Cardinality({i \in 1..Len(attempts) : attempts[i].mech # "docx2pdf"})

\* C24: provided the calls come back, every run of convert_docx_to_pdf ends
\* by returning True or False, after at most one native attempt and at most
\* three external attempts: a run that has not returned can take a step
\* (and every step moves the control forward), and a run that can take no
\* step has returned True or False.
C24_TerminatesReturning ==
    CallsComeBack
        => /\ NativeAttempts <= 1
           /\ ExternalAttempts <= 3
           /\ pc = "done" => result \in {"True", "False"}
           /\ pc # "done" => (result = "none" /\ ENABLED NextConverter)

\* C27: with the input DOCX missing, convert_docx_to_pdf returns False at
\* once: its first step prints the 'not found' error and returns, no
\* mechanism is ever attempted and the remediation message is never
\* printed.
C27_MissingInputReturnsFalse ==
    ~docx_exists
        => /\ attempts = <<>>
           /\ Count(out, RemediationMessage) = 0
           /\ pc \in {"start", "done"}
           /\ pc = "start" => (result = "none" /\ out = <<>> /\ ENABLED CheckInput)
           /\ pc = "done" => (result = "False" /\ out = <<"Error: docx not found">>
                              /\ ~ENABLED NextConverter)

\* the input is missing although docx2pdf and LibreOffice would both work
C27_Witness ==
    /\ ~docx_exists
    /\ pc = "done"
    /\ result = "False"
    /\ native_env = "returns"
    /\ ext_env[1] = "exit0"
    /\ attempts = <<>>

\* C28: when the converter reports failure (for an input that exists),
\* every path of libreoffice_paths has been attempted, however the earlier
\* candidates failed.
C28_EveryExternalCandidateTried ==
    (docx_exists /\ pc = "done" /\ result = "False")
        => \A i \in 1..Len(libreoffice_paths) :
             \E k \in 1..Len(attempts) : attempts[k].mech = libreoffice_paths[i]

(***************************************************************************)
(* The proportions of the two-column grid: claim C25, under SpecDriver.    *)
(***************************************************************************)
\* the two-column grid is the only table of a sidebar driver and the
\* second table of a template driver
Grid == IF driver \in SidebarDrivers THEN 1 ELSE 2

\* w as a share of total, in percent to the nearest percent
Percent(w, total) == (200 * w + total) \div (2 * total)

GridShares ==
    LET ws == doc.tables[Grid].widths
    IN  <<Percent(ws[1], SumSeq(ws)), Percent(ws[2], SumSeq(ws))>>

\* C25: once a driver has set the widths of its two-column grid, the two
\* widths have the shares the driver declares (32% and 68% in the sidebar
\* drivers, 50% and 50% in the template drivers), and in the template
\* drivers they add up to the full 8.5 in page width.
C25_WidthsAsDeclared ==
    (dpc = "run" /\ Past("set_widths"))
        => /\ GridShares = declared_split(driver)
           /\ driver \notin SidebarDrivers => SumSeq(doc.tables[Grid].widths) = PageWidth

(***************************************************************************)
(* A driver run without python-docx: claim C23, under SpecDriver.          *)
(***************************************************************************)
\* C23: a driver run in which the import of python-docx failed does not
\* end with the ImportError uncaught: it can end only once the 'python-docx
\* not found' message has been printed.
C23_MissingLibraryReported ==
    error = "ImportError"
        => /\ dpc # "uncaught"
           /\ ~ENABLED NextDriver => Count(out, LibraryNotFound) = 1

(***************************************************************************)
(* The properties containers of the paragraphs: claim C30, under SpecIcon. *)
(***************************************************************************)
\* C30: every paragraph of the cell has at most one w:pPr child and at most
\* one border, and the rule paragraph add_section_header appends has
\* exactly one w:pPr, holding both the formatting and the border.
C30_OnePropertiesContainer ==
    /\ \A i \in 1..Len(cell) : Len(cell[i].pPr) <= 1 /\ Len(cell[i].borders) <= 1
    /\ call.op = "add_section_header" => cell[ret + 1].pPr = <<{"formatting", "pBdr"}>>

====
